---- MODULE Spec2Model ----
(***************************************************************************)
(* A small-step model of the tree-walking evaluator of floop.py.           *)
(*                                                                         *)
(* The Python call stack of runinstr/run is the control stack ctl; the     *)
(* node being evaluated, the value being returned and the exception being  *)
(* unwound are tup, val and exc.  Every dict that holds cells is an entry  *)
(* of stores, and cells is the index of the dict the running frame refers  *)
(* to, so that sharing a dict between activations is expressible.          *)
(* written is a history variable: for the top level and for every running  *)
(* activation, the indices of the cells it has assigned so far.            *)
(***************************************************************************)
EXTENDS Integers, Sequences, FiniteSets, TLC

VARIABLES tree, prog, decls, stores, cells, params, ctl, pc, tup, val, exc, written

vars == <<tree, prog, decls, stores, cells, params, ctl, pc, tup, val, exc, written>>

(* Bounds of the model. *)
MaxInt == 6
MaxDepth == 3
MaxBound == 2

(***************************************************************************)
(* Values.  A Python bool is an int (True == 1, False == 0), so a value is *)
(* a tag and a number; None and Cell(index) are the two other results of   *)
(* runinstr.                                                               *)
(***************************************************************************)
IntV(n) == [t |-> "int", n |-> n]
BoolV(b) == [t |-> "bool", n |-> IF b THEN 1 ELSE 0]
Cell(index) == [t |-> "cell", n |-> index]
NoneV == [t |-> "None", n |-> 0]

Truthy(v) == v.n # 0

(* The tuples Sema builds. *)
None == <<"None">>
num(n) == <<"num", IntV(n)>>
bool(variant) == <<"bool", BoolV(variant = "YES")>>
cell(index) == <<"cell", index>>
output == <<"cell", -1>>
cellfetch(index) == <<"cellfetch", index>>
outputfetch == <<"cellfetch", -1>>
paramfetch(p) == <<"paramfetch", p>>
intexpr(a, op, b) == <<(IF op = "+" THEN "plus" ELSE "times"), a, b>>
boolexpr(a, op, b) ==
    <<(IF op = "=" THEN "eq" ELSE IF op = "<" THEN "lt" ELSE "gt"), a, b>>
assign(lvalue, expr) == <<"assign", lvalue, expr>>
block(blocknum, stmts) == <<"block", blocknum, stmts>>
loop(bound, blk) == <<"loop", bound, blk>>
muloop(blk) == <<"loop", None, blk>>
cond(test, blk) == <<"cond", test, blk>>
quit(blockidx) == <<"quit", blockidx>>
abort(loopidx) == <<"abort", loopidx>>
call(procname, args) == <<"call", procname, args>>
decl(procname, ps, blk) == <<"decl", procname, ps, blk>>
testname(tok) == tok \o <<"?">>

(* Exceptions. *)
NoExc == [type |-> "", blocknum |-> 0]
Abort(blocknum) == [type |-> "Abort", blocknum |-> blocknum]
Break(blocknum) == [type |-> "Break", blocknum |-> blocknum]
Error(type) == [type |-> type, blocknum |-> 0]

IsSignal(e) == e.type \in {"Abort", "Break"}

(* Dicts. *)
EmptyDict == [k \in {} |-> NoneV]
DictSet(d, k, v) == [x \in DOMAIN d \cup {k} |-> IF x = k THEN v ELSE d[x]]

Min(a, b) == IF a < b THEN a ELSE b

(* dict(zip(funcparams, funcargs)): pairs up to the shorter length, a later
   pair overwriting an earlier one with the same key. *)
ZipDict(funcparams, funcargs) ==
    LET n == Min(Len(funcparams), Len(funcargs))
        last(p) == CHOOSE i \in 1..n :
                       /\ funcparams[i] = p
                       /\ \A j \in 1..n : funcparams[j] = p => j <= i
    IN [p \in {funcparams[i] : i \in 1..n} |-> funcargs[last(p)]]

(* procname.endswith("?") *)
EndsWithMark(procname) ==
    Len(procname) > 0 /\ procname[Len(procname)] = "?"

DefaultOutputZero(procname) == IntV(0)

DefaultOutput(procname) ==
    IF EndsWithMark(procname) THEN BoolV(FALSE) ELSE IntV(0)

NewCellsInPlace(default_output) ==
    [stores |-> [stores EXCEPT ![cells] = DictSet(@, -1, default_output)],
     cells |-> cells]

(* cells = {-1: default_output}: a new dict, bound to the local name. *)
NewCells(default_output) ==
    [stores |-> Append(stores, (-1 :> default_output)),
     cells |-> Len(stores) + 1]

(* The binary operators on Python ints and bools. *)
BinOp(instr, a, b) ==
    CASE instr = "eq" -> BoolV(a.n = b.n)
      [] instr = "lt" -> BoolV(a.n < b.n)
      [] instr = "gt" -> BoolV(a.n > b.n)
      [] instr = "plus" -> IntV(a.n + b.n)
      [] instr = "times" -> IntV(a.n * b.n)

AbortMatchesOther(a, blocknum) == a.type = "Abort" /\ a.blocknum # blocknum

(* except Abort as a: a.blocknum == blocknum *)
AbortMatches(a, blocknum) == a.type = "Abort" /\ a.blocknum = blocknum

BreakMatchesOther(b, blocknum) == b.type = "Break" /\ b.blocknum # blocknum

(* except Break as b: not (b.blocknum != blocknum) *)
BreakMatches(b, blocknum) == b.type = "Break" /\ b.blocknum = blocknum

Top == ctl[1]
Push(f) == <<f>> \o ctl
Rest == Tail(ctl)

Evaluating(instrs) == pc = "eval" /\ tup[1] \in instrs
Returning(k, stage) ==
    pc = "ret" /\ ctl # <<>> /\ Top.k = k /\ Top.stage = stage
Raising(k) == pc = "raise" /\ ctl # <<>> /\ Top.k = k

Eval(t, c) == pc' = "eval" /\ tup' = t /\ val' = NoneV /\ exc' = NoExc /\ ctl' = c
Return(v, c) == pc' = "ret" /\ tup' = None /\ val' = v /\ exc' = NoExc /\ ctl' = c
Raise(e, c) == pc' = "raise" /\ tup' = None /\ val' = NoneV /\ exc' = e /\ ctl' = c

(* run(instrs, ...): res = None; for tup in instrs: res = runinstr(tup). *)
EnterRun(instrs, c) ==
    IF instrs = <<>>
    THEN Return(NoneV, c)
    ELSE Eval(instrs[1], <<[k |-> "run", stage |-> "for", instrs |-> instrs, i |-> 1]>> \o c)


(* The activations on the Python stack: one per call whose body is running. *)
Depth ==
    Cardinality({i \in 1..Len(ctl) : ctl[i].k = "call" /\ ctl[i].stage = "body"})

(***************************************************************************)
(* runinstr, one action per branch and per point where a frame resumes.    *)
(***************************************************************************)

(* instr, *args = tup, for tup = None *)
EvalNone ==
    /\ Evaluating({"None"})
    /\ Raise(Error("TypeError"), ctl)
    /\ UNCHANGED <<tree, prog, decls, stores, cells, params, written>>

EvalLeaf ==
    /\ Evaluating({"bool", "num", "output"})
    /\ Return(tup[2], ctl)
    /\ UNCHANGED <<tree, prog, decls, stores, cells, params, written>>

EvalAbort ==
    /\ Evaluating({"abort"})
    /\ Raise(Abort(tup[2]), ctl)
    /\ UNCHANGED <<tree, prog, decls, stores, cells, params, written>>

EvalQuit ==
    /\ Evaluating({"quit"})
    /\ Raise(Break(tup[2]), ctl)
    /\ UNCHANGED <<tree, prog, decls, stores, cells, params, written>>

EvalCond ==
    /\ Evaluating({"cond"})
    /\ Eval(tup[2], Push([k |-> "cond", stage |-> "test", blk |-> tup[3]]))
    /\ UNCHANGED <<tree, prog, decls, stores, cells, params, written>>

CondTest ==
    /\ Returning("cond", "test")
    /\ IF Truthy(val)
       THEN Eval(Top.blk, <<[Top EXCEPT !.stage = "then"]>> \o Rest)
       ELSE Return(NoneV, Rest)
    /\ UNCHANGED <<tree, prog, decls, stores, cells, params, written>>

CondDone ==
    /\ Returning("cond", "then")
    /\ Return(NoneV, Rest)
    /\ UNCHANGED <<tree, prog, decls, stores, cells, params, written>>

EvalBinop ==
    /\ Evaluating({"eq", "lt", "gt", "plus", "times"})
    /\ Eval(tup[2], Push([k |-> "binop", stage |-> "a", instr |-> tup[1],
                          rhs |-> tup[3], a |-> NoneV]))
    /\ UNCHANGED <<tree, prog, decls, stores, cells, params, written>>

BinopLeft ==
    /\ Returning("binop", "a")
    /\ Eval(Top.rhs, <<[Top EXCEPT !.stage = "b", !.a = val]>> \o Rest)
    /\ UNCHANGED <<tree, prog, decls, stores, cells, params, written>>

BinopRight ==
    /\ Returning("binop", "b")
    /\ LET r == BinOp(Top.instr, Top.a, val)
       IN /\ r.n <= MaxInt
          /\ Return(r, Rest)
    /\ UNCHANGED <<tree, prog, decls, stores, cells, params, written>>

EvalCell ==
    /\ Evaluating({"cell"})
    /\ Return(Cell(tup[2]), ctl)
    /\ UNCHANGED <<tree, prog, decls, stores, cells, params, written>>

EvalCellfetchDefault ==
    /\ Evaluating({"cellfetch"})
    /\ IF tup[2] \in DOMAIN stores[cells]
       THEN Return(stores[cells][tup[2]], ctl)
       ELSE Return(IntV(0), ctl)
    /\ UNCHANGED <<tree, prog, decls, stores, cells, params, written>>

EvalCellfetch ==
    /\ Evaluating({"cellfetch"})
    /\ IF tup[2] \in DOMAIN stores[cells]
       THEN Return(stores[cells][tup[2]], ctl)
       ELSE Raise(Error("KeyError"), ctl)
    /\ UNCHANGED <<tree, prog, decls, stores, cells, params, written>>

EvalParamfetch ==
    /\ Evaluating({"paramfetch"})
    /\ IF tup[2] \in DOMAIN params
       THEN Return(params[tup[2]], ctl)
       ELSE Raise(Error("KeyError"), ctl)
    /\ UNCHANGED <<tree, prog, decls, stores, cells, params, written>>

EvalAssign ==
    /\ Evaluating({"assign"})
    /\ Eval(tup[2], Push([k |-> "assign", stage |-> "left", expr |-> tup[3],
                          left |-> NoneV]))
    /\ UNCHANGED <<tree, prog, decls, stores, cells, params, written>>

AssignLeft ==
    /\ Returning("assign", "left")
    /\ IF val.t = "cell"
       THEN Eval(Top.expr, <<[Top EXCEPT !.stage = "value", !.left = val]>> \o Rest)
       ELSE Raise(Error("AssertionError"), Rest)
    /\ UNCHANGED <<tree, prog, decls, stores, cells, params, written>>

AssignStoreRef ==
    /\ Returning("assign", "value")
    /\ stores' = [stores EXCEPT ![cells] = DictSet(@, Top.left.n, Top.left)]
    /\ written' = [written EXCEPT ![Len(written)] = @ \cup {Top.left.n}]
    /\ Return(NoneV, Rest)
    /\ UNCHANGED <<tree, prog, decls, cells, params>>

AssignStore ==
    /\ Returning("assign", "value")
    /\ stores' = [stores EXCEPT ![cells] = DictSet(@, Top.left.n, val)]
    /\ written' = [written EXCEPT ![Len(written)] = @ \cup {Top.left.n}]
    /\ Return(NoneV, Rest)
    /\ UNCHANGED <<tree, prog, decls, cells, params>>

LoopFrame(stage, t) ==
    [k |-> "loop", stage |-> stage, bound |-> t[2], body |-> t[3], n |-> 0, i |-> 0]

EvalLoop ==
    /\ Evaluating({"loop"})
    /\ IF tup[2][1] = "None"
       THEN Eval(tup[3], Push(LoopFrame("while", tup)))
       ELSE Eval(tup[2], Push(LoopFrame("bound", tup)))
    /\ UNCHANGED <<tree, prog, decls, stores, cells, params, written>>

MuLoopNextOnce ==
    /\ Returning("loop", "while")
    /\ Return(NoneV, Rest)
    /\ UNCHANGED <<tree, prog, decls, stores, cells, params, written>>

(* while True: the body has returned, run it again *)
MuLoopNext ==
    /\ Returning("loop", "while")
    /\ Eval(Top.body, ctl)
    /\ UNCHANGED <<tree, prog, decls, stores, cells, params, written>>

(* except Abort in the while loop; after break control reaches line 126 *)
MuLoopAbort ==
    /\ Raising("loop") /\ Top.stage = "while" /\ exc.type = "Abort"
    /\ IF AbortMatches(exc, Top.body[2])
       THEN Eval(Top.bound, <<[Top EXCEPT !.stage = "bound"]>> \o Rest)
       ELSE Raise(exc, Rest)
    /\ UNCHANGED <<tree, prog, decls, stores, cells, params, written>>

(* bound = runinstr(args[0]); for i in range(bound): first iteration *)
LoopBound ==
    /\ Returning("loop", "bound")
    /\ IF val.n > 0
       THEN Eval(Top.body, <<[Top EXCEPT !.stage = "for", !.n = val.n, !.i = 0]>> \o Rest)
       ELSE Return(NoneV, Rest)
    /\ UNCHANGED <<tree, prog, decls, stores, cells, params, written>>

LoopNextRereads ==
    /\ Returning("loop", "for")
    /\ LET n == IF Top.bound[1] = "cellfetch" /\ Top.bound[2] \in DOMAIN stores[cells]
                THEN stores[cells][Top.bound[2]].n ELSE Top.n
       IN  IF Top.i + 1 < n
           THEN Eval(Top.body, <<[Top EXCEPT !.i = @ + 1]>> \o Rest)
           ELSE Return(NoneV, Rest)
    /\ UNCHANGED <<tree, prog, decls, stores, cells, params, written>>

LoopNext ==
    /\ Returning("loop", "for")
    /\ IF Top.i + 1 < Top.n
       THEN Eval(Top.body, <<[Top EXCEPT !.i = @ + 1]>> \o Rest)
       ELSE Return(NoneV, Rest)
    /\ UNCHANGED <<tree, prog, decls, stores, cells, params, written>>

LoopAbort ==
    /\ Raising("loop") /\ Top.stage = "for" /\ exc.type = "Abort"
    /\ IF AbortMatches(exc, Top.body[2])
       THEN Return(NoneV, Rest)
       ELSE Raise(exc, Rest)
    /\ UNCHANGED <<tree, prog, decls, stores, cells, params, written>>

EvalBlock ==
    /\ Evaluating({"block"})
    /\ EnterRun(tup[3], Push([k |-> "block", stage |-> "try", blocknum |-> tup[2]]))
    /\ UNCHANGED <<tree, prog, decls, stores, cells, params, written>>

RunNext ==
    /\ Returning("run", "for")
    /\ IF Top.i < Len(Top.instrs)
       THEN Eval(Top.instrs[Top.i + 1], <<[Top EXCEPT !.i = @ + 1]>> \o Rest)
       ELSE Return(val, Rest)
    /\ UNCHANGED <<tree, prog, decls, stores, cells, params, written>>

BlockDone ==
    /\ Returning("block", "try")
    /\ Return(NoneV, Rest)
    /\ UNCHANGED <<tree, prog, decls, stores, cells, params, written>>

BlockBreak ==
    /\ Raising("block") /\ exc.type = "Break"
    /\ IF BreakMatches(exc, Top.blocknum)
       THEN Return(NoneV, Rest)
       ELSE Raise(exc, Rest)
    /\ UNCHANGED <<tree, prog, decls, stores, cells, params, written>>

EvalDeclKeepFirst ==
    /\ Evaluating({"decl"})
    /\ decls' = IF tup[2] \in DOMAIN decls THEN decls
                ELSE DictSet(decls, tup[2], <<tup[3], tup[4]>>)
    /\ Return(NoneV, ctl)
    /\ UNCHANGED <<tree, prog, stores, cells, params, written>>

EvalDecl ==
    /\ Evaluating({"decl"})
    /\ decls' = DictSet(decls, tup[2], <<tup[3], tup[4]>>)
    /\ Return(NoneV, ctl)
    /\ UNCHANGED <<tree, prog, stores, cells, params, written>>

(* The grammar gives every call at least one argument. *)
EvalCall ==
    /\ Evaluating({"call"})
    /\ Len(tup[3]) > 0
    /\ Eval(tup[3][1], Push([k |-> "call", stage |-> "args", procname |-> tup[2],
                             args |-> tup[3], funcargs |-> <<>>,
                             cells |-> cells, params |-> params,
                             snap |-> stores[cells]]))
    /\ UNCHANGED <<tree, prog, decls, stores, cells, params, written>>

CallArg ==
    /\ Returning("call", "args")
    /\ Len(Top.funcargs) + 1 < Len(Top.args)
    /\ Eval(Top.args[Len(Top.funcargs) + 2],
            <<[Top EXCEPT !.funcargs = Append(@, val)]>> \o Rest)
    /\ UNCHANGED <<tree, prog, decls, stores, cells, params, written>>

(* lines 154-159: the arguments are evaluated, the body is entered *)
CallEnter ==
    /\ Returning("call", "args")
    /\ Len(Top.funcargs) + 1 = Len(Top.args)
    /\ IF Top.procname \notin DOMAIN decls
       THEN /\ Raise(Error("KeyError"), Rest)
            /\ UNCHANGED <<stores, cells, params, written>>
       ELSE /\ Depth < MaxDepth
            /\ LET funcparams == decls[Top.procname][1]
                   blk == decls[Top.procname][2]
                   new == NewCells(DefaultOutput(Top.procname))
               IN /\ stores' = new.stores
                  /\ cells' = new.cells
                  /\ params' = ZipDict(funcparams, Append(Top.funcargs, val))
                  /\ written' = Append(written, {})
                  /\ Eval(blk, <<[Top EXCEPT !.stage = "body",
                                             !.funcargs = Append(@, val)]>> \o Rest)
    /\ UNCHANGED <<tree, prog, decls>>

(* return cells[-1]; the caller's frame has its own cells and params *)
CallReturn ==
    /\ Returning("call", "body")
    /\ Return(stores[cells][-1], Rest)
    /\ stores' = SubSeq(stores, 1, Top.cells)
    /\ cells' = Top.cells
    /\ params' = Top.params
    /\ written' = SubSeq(written, 1, Len(written) - 1)
    /\ UNCHANGED <<tree, prog, decls>>

CallSignalLeaks ==
    /\ Raising("call") /\ Top.stage = "body" /\ IsSignal(exc)
    /\ Raise(exc, Rest)
    /\ stores' = SubSeq(stores, 1, Top.cells)
    /\ cells' = Top.cells
    /\ params' = Top.params
    /\ written' = SubSeq(written, 1, Len(written) - 1)
    /\ UNCHANGED <<tree, prog, decls>>

(* except Abort as a: raise Exception(a.str()): an exception has no str *)
CallSignal ==
    /\ Raising("call") /\ Top.stage = "body" /\ IsSignal(exc)
    /\ Raise(Error("AttributeError"), Rest)
    /\ stores' = SubSeq(stores, 1, Top.cells)
    /\ cells' = Top.cells
    /\ params' = Top.params
    /\ written' = SubSeq(written, 1, Len(written) - 1)
    /\ UNCHANGED <<tree, prog, decls>>

(* Whether the frame has an except clause for the exception. *)
Handles(f, e) ==
    \/ f.k = "loop" /\ f.stage \in {"while", "for"} /\ e.type = "Abort"
    \/ f.k = "block" /\ e.type = "Break"
    \/ f.k = "call" /\ f.stage = "body" /\ IsSignal(e)

PropagateBreakEndsLoop ==
    /\ pc = "raise" /\ ctl # <<>>
    /\ ~Handles(Top, exc)
    /\ IF Top.k = "loop" /\ exc.type = "Break"
       THEN Return(NoneV, Rest)
       ELSE Raise(exc, Rest)
    /\ IF Top.k = "call" /\ Top.stage = "body"
       THEN /\ stores' = SubSeq(stores, 1, Top.cells)
            /\ cells' = Top.cells
            /\ params' = Top.params
            /\ written' = SubSeq(written, 1, Len(written) - 1)
       ELSE UNCHANGED <<stores, cells, params, written>>
    /\ UNCHANGED <<tree, prog, decls>>

(* An exception leaves a frame that does not catch it. *)
Propagate ==
    /\ pc = "raise" /\ ctl # <<>>
    /\ ~Handles(Top, exc)
    /\ Raise(exc, Rest)
    /\ IF Top.k = "call" /\ Top.stage = "body"
       THEN /\ stores' = SubSeq(stores, 1, Top.cells)
            /\ cells' = Top.cells
            /\ params' = Top.params
            /\ written' = SubSeq(written, 1, Len(written) - 1)
       ELSE UNCHANGED <<stores, cells, params, written>>
    /\ UNCHANGED <<tree, prog, decls>>

(***************************************************************************)
(* The parse tree.  A block of the tree carries both of its NUMBER tokens: *)
(* <<"block", opening number, statements, closing number>>.  The other     *)
(* subtrees are written as Sema leaves them, since no method of            *)
(* CheckBlocks reads them.                                                 *)
(***************************************************************************)
SemanticError == Error("SemanticError")

(* Tree.iter_subtrees as Visitor.visit walks it, kept to the subtrees whose *)
(* rule is block: the visitor has a method for no other rule.               *)
RECURSIVE iter_subtrees(_)
iter_subtrees_top(t) ==
    CASE t[1] = "block" -> {t}
      [] t[1] \in {"loop", "cond"} -> {t[3]}
      [] t[1] = "decl" -> {t[4]}
      [] OTHER -> {}
iter_subtrees(t) ==
    CASE t[1] = "block" ->
             {t} \cup UNION {iter_subtrees(t[3][i]) : i \in 1..Len(t[3])}
      [] t[1] \in {"loop", "cond"} -> iter_subtrees(t[3])
      [] t[1] = "decl" -> iter_subtrees(t[4])
      [] OTHER -> {}

(* start_num != end_num *)
LabelsDiffer(b) == b[2] # b[4]

(* CheckBlocks().visit(tree), and the except clause of the main program:   *)
(* a SemanticError is printed and neither Sema nor run is reached.         *)
CheckBlocks ==
    /\ pc = "check"
    /\ IF \E i \in 1..Len(tree) : \E b \in iter_subtrees(tree[i]) : LabelsDiffer(b)
       THEN pc' = "rejected" /\ exc' = SemanticError
       ELSE pc' = "sema" /\ exc' = exc
    /\ UNCHANGED <<tree, prog, decls, stores, cells, params, ctl, tup, val, written>>

AssertionError == <<"AssertionError">>

(* Sema().transform(tree), bottom-up: a block becomes (block, blocknum,    *)
(* stmts) after the assertion on its closing number.                       *)
RECURSIVE Sema(_)
Sema(t) ==
    CASE t[1] = "block" ->
             LET stmts == [i \in 1..Len(t[3]) |-> Sema(t[3][i])]
             IN  IF \/ \E i \in 1..Len(stmts) : stmts[i] = AssertionError
                    \/ t[4] # t[2]
                 THEN AssertionError
                 ELSE block(t[2], stmts)
      [] t[1] \in {"loop", "cond"} ->
             LET blk == Sema(t[3])
             IN  IF blk = AssertionError THEN AssertionError
                 ELSE <<t[1], t[2], blk>>
      [] t[1] = "decl" ->
             LET blk == Sema(t[4])
             IN  IF blk = AssertionError THEN AssertionError
                 ELSE decl(t[2], t[3], blk)
      [] OTHER -> t

(* ev = Sema().transform(tree) *)
SemaTransform ==
    /\ pc = "sema"
    /\ LET ev == [i \in 1..Len(tree) |-> Sema(tree[i])]
       IN  IF \E i \in 1..Len(ev) : ev[i] = AssertionError
           THEN pc' = "crashed" /\ exc' = Error("AssertionError") /\ prog' = prog
           ELSE pc' = "start" /\ exc' = exc /\ prog' = ev
    /\ UNCHANGED <<tree, decls, stores, cells, params, ctl, tup, val, written>>

(* res = run(ev, {}, {}, {}) *)
Start ==
    /\ pc = "start"
    /\ EnterRun(prog, <<>>)
    /\ UNCHANGED <<tree, prog, decls, stores, cells, params, written>>

(* print(f"Result: {res}") *)
Finish ==
    /\ pc = "ret" /\ ctl = <<>>
    /\ pc' = "done"
    /\ UNCHANGED <<tree, prog, decls, stores, cells, params, ctl, tup, val, exc, written>>

(* Only SemanticError is caught: any other exception ends the process. *)
Crash ==
    /\ pc = "raise" /\ ctl = <<>>
    /\ pc' = "crashed"
    /\ UNCHANGED <<tree, prog, decls, stores, cells, params, ctl, tup, val, exc, written>>


(***************************************************************************)
(* The programs the evaluator is run on: what Sema returns for source      *)
(* texts of the grammar, over small sets of labels, literals and           *)
(* statements.                                                             *)
(***************************************************************************)
F == <<"f">>
G == <<"g">>
ADD == <<"a", "d", "d">>
ISZERO == testname(<<"z", "?">>)
NOOUT == <<"n">>
UNDECLARED == <<"u">>

Signals == {abort(0), abort(1), quit(0), quit(1), quit(2)}
LoopHeads == {None} \cup {num(n) : n \in 0..MaxBound}
Literals == {bool("YES"), bool("NO")} \cup {num(n) : n \in 0..2}
Operators == {"eq", "lt", "gt", "plus", "times"}

(* f counts in CELL(0) inside a loop whose body has label l and raises the
   signal when the count equals its parameter. *)
LoopProgram(head, l, step, sigs, x) ==
    <<decl(F, <<"X">>, block(0, <<
          assign(cell(0), num(0)),
          loop(head, block(l, <<
              assign(cell(0), intexpr(cellfetch(0), "+", num(step))),
              cond(boolexpr(cellfetch(0), "=", paramfetch("X")), block(2, sigs)),
              assign(cell(1), cellfetch(0)) >>)),
          assign(output, cellfetch(0)) >>)),
      call(F, <<num(x)>>)>>

LoopPrograms ==
    {LoopProgram(head, l, step, sigs, x) :
        head \in LoopHeads, l \in {0, 1}, step \in {0, 1},
        sigs \in {<<>>} \cup {<<s>> : s \in Signals}, x \in 0..(MaxInt - 1)}

Library ==
    <<decl(ADD, <<"A", "B">>, block(0, <<
          assign(output, intexpr(paramfetch("A"), "+", paramfetch("B"))) >>)),
      decl(ISZERO, <<"X">>, block(0, <<
          cond(boolexpr(paramfetch("X"), "=", num(0)), block(1, <<
              assign(output, bool("YES")) >>)) >>)),
      decl(NOOUT, <<"X">>, block(0, <<
          assign(cell(0), paramfetch("X")),
          assign(cell(1), num(1)) >>))>>

(* A top-level call of a library procedure. *)
DirectProgram(name, args) == Library \o <<call(name, args)>>

DirectPrograms ==
    {DirectProgram(name, SubSeq(<<num(a), num(b), outputfetch>>, 1, n)) :
        name \in {ADD, ISZERO, NOOUT, UNDECLARED}, a \in 0..3, b \in 0..3, n \in 1..3}
    \cup {Library, <<>>}

(* f calls a library procedure between two uses of its own cells. *)
CallerProgram(name, args, x) ==
    Library \o
    <<decl(F, <<"X">>, block(0, <<
          assign(cell(0), paramfetch("X")),
          assign(cell(1), call(name, args)),
          assign(output, intexpr(cellfetch(0), "+", cellfetch(1))) >>)),
      call(F, <<num(x)>>)>>

CallerPrograms ==
    {CallerProgram(name, SubSeq(<<cellfetch(0), num(b), outputfetch>>, 1, n), x) :
        name \in {ADD, ISZERO, NOOUT, UNDECLARED}, b \in 0..2, n \in 1..3, x \in 0..2}

(* f calls itself until its parameter reaches d. *)
RecursiveProgram(d) ==
    <<decl(F, <<"X">>, block(0, <<
          assign(cell(0), paramfetch("X")),
          cond(boolexpr(paramfetch("X"), "<", num(d)), block(1, <<
              assign(cell(1), intexpr(paramfetch("X"), "+", num(1))),
              assign(cell(2), call(F, <<cellfetch(1)>>)),
              assign(output, intexpr(cellfetch(2), "+", cellfetch(0))) >>)) >>)),
      call(F, <<num(0)>>)>>

RecursivePrograms == {RecursiveProgram(d) : d \in 0..MaxDepth}

(* g applies a binary operator to two cells that hold literals. *)
TypeProgram(a, op, b) ==
    <<decl(G, <<"X">>, block(0, <<
          assign(cell(0), a),
          assign(cell(1), b),
          assign(output, <<op, cellfetch(0), cellfetch(1)>>) >>)),
      call(G, <<num(0)>>)>>

TypePrograms ==
    {TypeProgram(a, op, b) : a \in Literals, b \in Literals, op \in Operators}

(* The procedure reads OUTPUT, writes cell i and reads cell j; its caller f
   has written cells 0 and 1. *)
FetchProgram(name, i, j) ==
    <<decl(name, <<"X">>, block(0, <<
          assign(cell(2), outputfetch),
          assign(cell(i), num(1)),
          assign(cell(2), cellfetch(j)) >>)),
      decl(F, <<"X">>, block(0, <<
          assign(cell(0), num(2)),
          assign(cell(1), num(2)),
          assign(output, call(name, <<paramfetch("X")>>)) >>)),
      call(F, <<num(0)>>)>>

FetchPrograms ==
    {FetchProgram(name, i, j) :
        name \in {G, testname(<<"g", "?">>)}, i \in -1..1, j \in -1..1}

(* g raises a signal under a loop and blocks of its caller f. *)
EscapeProgram(s, head) ==
    <<decl(G, <<"X">>, block(2, <<s, assign(output, num(1))>>)),
      decl(F, <<"X">>, block(0, <<
          loop(head, block(1, <<
              assign(cell(0), call(G, <<paramfetch("X")>>)),
              abort(1) >>)),
          assign(output, num(2)) >>)),
      call(F, <<num(0)>>)>>

EscapePrograms ==
    {EscapeProgram(s, head) : s \in Signals \cup {abort(2)}, head \in LoopHeads}

(* g calls f, which is declared after g and declared twice, the second    *)
(* time with another parameter name and another body.                      *)
RedeclProgram(a, b, x) ==
    <<decl(G, <<"X">>, block(0, <<
          assign(output, call(F, <<paramfetch("X")>>)) >>)),
      decl(F, <<"X">>, block(0, <<
          assign(output, intexpr(paramfetch("X"), "+", num(a))) >>)),
      decl(F, <<"Y">>, block(0, <<
          assign(output, intexpr(paramfetch("Y"), "*", num(b))) >>)),
      call(G, <<num(x)>>)>>

RedeclPrograms ==
    {RedeclProgram(a, b, x) : a \in 0..2, b \in 0..2, x \in 0..2}

(* f loops CELL(0) times over a body that assigns e to CELL(0) and counts *)
(* its runs in CELL(1).                                                    *)
BoundProgram(x, e) ==
    <<decl(F, <<"X">>, block(0, <<
          assign(cell(0), paramfetch("X")),
          assign(cell(1), num(0)),
          loop(cellfetch(0), block(1, <<
              assign(cell(0), e),
              assign(cell(1), intexpr(cellfetch(1), "+", num(1))) >>)),
          assign(output, cellfetch(1)) >>)),
      call(F, <<num(x)>>)>>

BoundBodies == {num(0), intexpr(cellfetch(0), "+", num(1)), cellfetch(1)}

BoundPrograms ==
    {BoundProgram(x, e) : x \in 0..3, e \in BoundBodies}

(* f raises the signal s in the body, labelled li, of an inner loop that  *)
(* stands in a block labelled bl of the body, labelled 1, of an outer      *)
(* loop; CELL(0) counts the outer runs, CELL(1) the inner ones and CELL(2) *)
(* the runs of the statement after the inner loop.                         *)
NestProgram(outer, inner, li, bl, s, x) ==
    <<decl(F, <<"X">>, block(0, <<
          assign(cell(0), num(0)),
          assign(cell(1), num(0)),
          assign(cell(2), num(0)),
          loop(outer, block(1, <<
              assign(cell(0), intexpr(cellfetch(0), "+", num(1))),
              cond(boolexpr(cellfetch(0), ">", paramfetch("X")), block(3, <<quit(0)>>)),
              block(bl, <<
                  loop(inner, block(li, <<
                      assign(cell(1), intexpr(cellfetch(1), "+", num(1))),
                      s,
                      assign(cell(1), num(5)) >>)),
                  assign(cell(2), intexpr(cellfetch(2), "+", num(1))) >>),
              assign(output, intexpr(cellfetch(1), "+", cellfetch(2))) >>)) >>)),
      call(F, <<num(x)>>)>>

NestHeads == {None, num(2)}
NestSignals == {abort(1), abort(2), quit(0), quit(1), quit(2)}

NestPrograms ==
    {NestProgram(outer, inner, li, bl, s, x) :
        outer \in NestHeads, inner \in NestHeads, li \in {1, 2}, bl \in {1, 2},
        s \in NestSignals, x \in 1..2}

Programs ==
    LoopPrograms \cup DirectPrograms \cup CallerPrograms \cup RecursivePrograms
        \cup TypePrograms \cup FetchPrograms \cup EscapePrograms
        \cup RedeclPrograms \cup BoundPrograms \cup NestPrograms

(* The parse tree of a program, the blocks equal to `bad` closed with a    *)
(* number other than the one they open with.                               *)
RECURSIVE ParseTree(_, _)
ParseTree(t, bad) ==
    CASE t[1] = "block" ->
             <<"block", t[2],
               [i \in 1..Len(t[3]) |-> ParseTree(t[3][i], bad)],
               IF t = bad THEN t[2] + 1 ELSE t[2]>>
      [] t[1] \in {"loop", "cond"} -> <<t[1], t[2], ParseTree(t[3], bad)>>
      [] t[1] = "decl" -> <<"decl", t[2], t[3], ParseTree(t[4], bad)>>
      [] OTHER -> t

RECURSIVE BlocksOf(_)
BlocksOf(t) ==
    CASE t[1] = "block" ->
             {t} \cup UNION {BlocksOf(t[3][i]) : i \in 1..Len(t[3])}
      [] t[1] \in {"loop", "cond"} -> BlocksOf(t[3])
      [] t[1] = "decl" -> BlocksOf(t[4])
      [] OTHER -> {}

TreeOf(p, bad) == [i \in 1..Len(p) |-> ParseTree(p[i], bad)]

Trees ==
    {TreeOf(p, None) : p \in Programs}
        \cup UNION {{TreeOf(p, b) : b \in UNION {BlocksOf(p[i]) : i \in 1..Len(p)}}
                       : p \in Programs}

Init ==
    /\ tree \in Trees
    /\ prog = <<>>
    /\ decls = EmptyDict
    /\ stores = <<EmptyDict>>
    /\ cells = 1
    /\ params = EmptyDict
    /\ ctl = <<>>
    /\ pc = "check"
    /\ tup = None
    /\ val = NoneV
    /\ exc = NoExc
    /\ written = <<{}>>

Next ==
    \/ CheckBlocks \/ SemaTransform
    \/ Start \/ Finish \/ Crash \/ Propagate
    \/ EvalNone \/ EvalLeaf \/ EvalAbort \/ EvalQuit
    \/ EvalCond \/ CondTest \/ CondDone
    \/ EvalBinop \/ BinopLeft \/ BinopRight
    \/ EvalCell \/ EvalCellfetch \/ EvalParamfetch
    \/ EvalAssign \/ AssignLeft \/ AssignStore
    \/ EvalLoop \/ MuLoopNext \/ MuLoopAbort \/ LoopBound \/ LoopNext \/ LoopAbort
    \/ EvalBlock \/ RunNext \/ BlockDone \/ BlockBreak
    \/ EvalDecl \/ EvalCall \/ CallArg \/ CallEnter \/ CallReturn \/ CallSignal

Spec == Init /\ [][Next]_vars


(***************************************************************************)
(* The claims.                                                             *)
(***************************************************************************)

(* An Abort that reaches a loop whose body block carries its label. *)
OwnAbort(stage) ==
    Raising("loop") /\ Top.stage = stage /\ exc = Abort(Top.body[2])

(* The running frame returns None to the frame below it and writes no cell. *)
ReturnsNormally ==
    pc' = "ret" /\ val' = NoneV /\ ctl' = Rest /\ stores' = stores

(* The exception leaves the running frame unchanged and nothing is executed. *)
PassesOn ==
    pc' = "raise" /\ exc' = exc /\ ctl' = Rest /\ stores' = stores

Ended == pc \in {"done", "crashed"}

(* C1: when the body of a mu-loop raises Abort(n) and n is the label of the
   loop's body block, the mu-loop ends normally: no error is raised and the
   statement after the loop runs next. *)
C1_MuLoopOwnAbortEndsLoop ==
    [][OwnAbort("while") => ReturnsNormally]_vars

C2_Unwinds ==
    (pc = "raise" /\ ctl # <<>> /\ exc.type = "Abort" /\ Top.k \in {"run", "block", "cond"})
        => PassesOn

C2_Results ==
    Ended =>
        \A n \in 0..MaxBound, l \in {0, 1}, x \in 1..MaxBound :
            prog = LoopProgram(num(n), l, 1, <<abort(l)>>, x)
                => (pc = "done" /\ val = IntV(Min(n, x)))

(* C2: Abort(n) in the body, labelled n, of a bounded loop ends the loop
   normally.  The statements after the abort are not executed (the abort
   leaves every block and statement list on its way without a step of
   theirs), no further iteration starts, and the statement after the loop
   runs: a loop of n passes that counts in cell 0 and aborts at count x
   leaves min(n, x) there. *)
C2_BoundedLoopOwnAbortEndsLoop ==
    /\ []C2_Results
    /\ [][C2_Unwinds /\ (OwnAbort("for") => ReturnsNormally)]_vars

C2_Witness ==
    /\ pc = "done"
    /\ prog = LoopProgram(num(2), 1, 1, <<abort(1)>>, 1)
    /\ val = IntV(1)

C3_Skips ==
    (pc = "raise" /\ ctl # <<>> /\ exc.type = "Break" /\ Top.k \in {"run", "cond"})
        => PassesOn

C3_Swallows ==
    (Raising("block") /\ exc = Break(Top.blocknum)) => ReturnsNormally

C3_LastCopied(n, x) == IF x = n THEN n - 1 ELSE n

C3_Results ==
    Returning("call", "body") =>
        \A n \in 0..MaxBound, l \in {0, 1}, x \in 0..(MaxInt - 1) :
            prog = LoopProgram(num(n), l, 1, <<quit(l)>>, x)
                => /\ stores[cells][0] = IntV(n)
                   /\ (1 \in DOMAIN stores[cells]) <=> (C3_LastCopied(n, x) >= 1)
                   /\ (1 \in DOMAIN stores[cells])
                          => stores[cells][1] = IntV(C3_LastCopied(n, x))

(* C3: Quit(n) inside the block labelled n skips the rest of that block,
   which then completes normally; a loop whose body it is goes on: a loop
   of n passes that counts in cell 0 and quits its body at count x still
   counts to n, and only the pass that quit has not copied the count to
   cell 1. *)
C3_QuitEndsBlockNotLoop ==
    /\ []C3_Results
    /\ [][C3_Skips /\ C3_Swallows]_vars

C3_Witness ==
    /\ Returning("call", "body")
    /\ prog = LoopProgram(num(2), 1, 1, <<quit(1)>>, 1)
    /\ stores[cells][0] = IntV(2)
    /\ stores[cells][1] = IntV(2)


CallFrames == {i \in 1..Len(ctl) : ctl[i].k = "call"}

C4_CallerCellsKept ==
    \A i \in CallFrames : stores[ctl[i].cells] = ctl[i].snap

C4_CalleeStartsFresh ==
    (pc = "eval" /\ ctl # <<>> /\ Top.k = "call" /\ Top.stage = "body")
        => /\ DOMAIN stores[cells] = {-1}
           /\ \A i \in CallFrames : ctl[i].cells # cells

C4_ParamsKept ==
    /\ (Depth' = Depth /\ pc # "start") => params' = params
    /\ Returning("call", "body") => (params' = Top.params /\ stores'[cells'] = Top.snap)

(* C4: a Call never changes its caller's state.  While a call is being
   made, the caller's cells are what they were when the call began, at
   every depth of nesting; the body starts on cells that hold the default
   output and nothing else; the parameter binding changes only on entering
   and on leaving an activation, and leaving restores the caller's. *)
C4_CallKeepsCallerState ==
    /\ [](C4_CallerCellsKept /\ C4_CalleeStartsFresh)
    /\ [][C4_ParamsKept]_vars

(* An activation two calls deep returns having given cell 0 another value
   than its caller's cell 0 holds. *)
C4_Witness ==
    /\ Returning("call", "body")
    /\ Depth >= 2
    /\ 0 \in DOMAIN stores[cells] /\ 0 \in DOMAIN Top.snap
    /\ stores[cells][0] # Top.snap[0]

C5_Converted ==
    (Raising("call") /\ Top.stage = "body" /\ IsSignal(exc))
        => (pc' = "raise" /\ ~IsSignal(exc') /\ exc'.type # "" /\ ctl' = Rest)

C5_ErrorIsFatal ==
    (pc = "raise" /\ ~IsSignal(exc))
        => IF ctl = <<>> THEN pc' = "crashed" /\ exc' = exc
           ELSE pc' = "raise" /\ exc' = exc /\ ctl' = Rest

C5_Results ==
    Ended =>
        \A s \in {abort(0), abort(1), abort(2), quit(0), quit(1)},
           head \in {None} \cup {num(n) : n \in 1..MaxBound} :
            prog = EscapeProgram(s, head) => (pc = "crashed" /\ ~IsSignal(exc))

(* C5: a Quit or Abort that nothing in the callee's body intercepts ends
   the call in an error, no signal: no block or loop of the caller acts on
   it, even one with the signal's label, and the run fails. *)
C5_EscapingSignalIsFatal ==
    /\ []C5_Results
    /\ [][C5_Converted /\ C5_ErrorIsFatal]_vars

(* The callee aborted label 1, the label of the body of the caller's loop. *)
C5_Witness ==
    /\ pc = "crashed"
    /\ prog = EscapeProgram(abort(1), num(2))
    /\ exc.type = "AttributeError"


(* C6: a Call whose number of arguments differs from the number of
   parameters of the procedure fails before the body is evaluated: no body
   runs on a binding made from the wrong number of arguments. *)
C6_ArityMismatchFails ==
    \A i \in CallFrames :
        ctl[i].stage = "body"
            => Len(ctl[i].funcargs) = Len(decls[ctl[i].procname][1])

C7_Mismatch(instr, a, b) ==
    IF instr = "eq" THEN a.t # b.t ELSE a.t = "bool" \/ b.t = "bool"

(* C7: a binary operation on operands of an incompatible tag fails and
   yields no value: add, multiply, less and greater when either operand is
   a Boolean, equal when one operand is an Integer and the other a
   Boolean. *)
C7_TypeMismatchFails ==
    [][(Returning("binop", "b") /\ C7_Mismatch(Top.instr, Top.a, val))
           => pc' = "raise"]_vars

C8_StartsAtDefault ==
    (pc = "eval" /\ ctl # <<>> /\ Top.k = "call" /\ Top.stage = "body")
        => stores[cells][-1] =
               (IF Top.procname[Len(Top.procname)] = "?" THEN BoolV(FALSE) ELSE IntV(0))

C8_OutputSetOnlyByAssign ==
    (Depth > 0 /\ Depth' = Depth /\ stores'[cells'][-1] # stores[cells][-1])
        => (Returning("assign", "value") /\ Top.left = Cell(-1)
                /\ stores'[cells'][-1] = val)

C8_ReturnsOutput ==
    Returning("call", "body") => (pc' = "ret" /\ val' = stores[cells][-1])

C8_Results ==
    pc = "done" =>
        \A a \in 0..3, b \in 0..3 :
            /\ prog = DirectProgram(ISZERO, <<num(a)>>) => val = BoolV(a = 0)
            /\ prog = DirectProgram(NOOUT, <<num(a)>>) => val = IntV(0)
            /\ prog = DirectProgram(ADD, <<num(a), num(b)>>) => val = IntV(a + b)

(* C8: a call that completes returns the final value of cell -1 of the
   callee's own cells; they start at Boolean false for a name that ends in
   the mark and at Integer 0 otherwise, and only an assignment to OUTPUT
   changes that cell, so that z?(3) is false, z?(0) true, add(a, b) the sum
   and a procedure that assigns other cells only 0. *)
C8_CallReturnsOutputCell ==
    /\ [](C8_StartsAtDefault /\ C8_Results)
    /\ [][C8_OutputSetOnlyByAssign /\ C8_ReturnsOutput]_vars

C8_Witness ==
    /\ pc = "done"
    /\ prog = DirectProgram(ISZERO, <<num(3)>>)
    /\ val = BoolV(FALSE)

C9_Fetch ==
    (Evaluating({"cellfetch"}) /\ Depth > 0)
        => IF tup[2] = -1 \/ tup[2] \in written[Len(written)]
           THEN pc' = "ret" /\ val'.t \in {"int", "bool"}
           ELSE pc' = "raise" /\ exc'.type = "KeyError"

C9_Results ==
    Ended =>
        \A name \in {G, testname(<<"g", "?">>)}, i \in -1..1, j \in -1..1 :
            prog = FetchProgram(name, i, j)
                => IF j \in {-1, i} THEN pc = "done"
                   ELSE pc = "crashed" /\ exc.type = "KeyError"

(* C9: in an activation, fetching a cell other than -1 that the activation
   has not assigned fails with an error that ends the run, whatever its
   caller holds in that cell, and is never given a value; fetching cell -1
   succeeds from the first statement on. *)
C9_UnassignedCellFetchFails ==
    /\ []C9_Results
    /\ [][C9_Fetch]_vars

(* g has assigned cell 1 and fetches cell 0, which only its caller wrote. *)
C9_Witness ==
    /\ pc = "crashed"
    /\ prog = FetchProgram(G, 1, 0)
    /\ exc.type = "KeyError"

InMuLoop == ctl # <<>> /\ Top.k = "loop" /\ Top.stage = "while"

C10_RunsAgain ==
    Returning("loop", "while") => (pc' = "eval" /\ tup' = Top.body /\ ctl' = ctl)

C10_NeverReturns ==
    (InMuLoop /\ pc # "raise")
        => /\ Len(ctl') >= Len(ctl)
           /\ ctl'[Len(ctl') - Len(ctl) + 1] = Top

C10_Results ==
    Ended =>
        \A l \in {0, 1}, step \in {0, 1}, x \in 0..(MaxInt - 1) :
            \A sigs \in {<<>>, <<quit(2)>>, <<quit(l)>>} :
                prog # LoopProgram(None, l, step, sigs, x)

(* C10: a mu-loop has no iteration cap.  Every completed pass is followed
   by another evaluation of the body, the loop's frame leaves the stack
   only while an exception is raised, and a run that is in a mu-loop whose
   body raises no Abort of its label and lets no other signal or error out
   never ends. *)
C10_MuLoopHasNoCap ==
    /\ []C10_Results
    /\ [][C10_RunsAgain /\ C10_NeverReturns]_vars

(* A mu-loop has completed its third pass. *)
C10_Witness ==
    /\ Returning("loop", "while")
    /\ 0 \in DOMAIN stores[cells]
    /\ stores[cells][0].n >= 3

(***************************************************************************)
(* Block validation.                                                       *)
(***************************************************************************)
RECURSIVE C11_LabelsEqual(_)
C11_LabelsEqual(t) ==
    CASE t[1] = "block" ->
             /\ t[2] = t[4]
             /\ \A i \in 1..Len(t[3]) : C11_LabelsEqual(t[3][i])
      [] t[1] \in {"loop", "cond"} -> C11_LabelsEqual(t[3])
      [] t[1] = "decl" -> C11_LabelsEqual(t[4])
      [] OTHER -> TRUE

C11_AllEqual == \A i \in 1..Len(tree) : C11_LabelsEqual(tree[i])

C11_Rejected ==
    pc = "rejected" =>
        /\ ~C11_AllEqual
        /\ exc = SemanticError
        /\ prog = <<>> /\ decls = EmptyDict
        /\ stores = <<EmptyDict>> /\ written = <<{}>>
        /\ ctl = <<>> /\ val = NoneV

C11_Accepted ==
    /\ pc \notin {"check", "rejected"} => C11_AllEqual
    /\ exc # Error("AssertionError")

C11_Decides ==
    /\ pc = "check" => pc' = IF C11_AllEqual THEN "sema" ELSE "rejected"
    /\ pc # "rejected"

(* C11: the validator accepts a tree iff every block of it, at any depth   *)
(* of any declaration, closes with the number it opens with; a tree with a *)
(* block that does not is rejected with a SemanticError, nothing is        *)
(* transformed or run, no declaration is registered, no cell is written,   *)
(* no call is evaluated, and the rejection is final.                       *)
C11_ValidatorAcceptsIffLabelsEqual ==
    /\ [](C11_Rejected /\ C11_Accepted)
    /\ [][C11_Decides]_vars

(* A tree rejected for a block nested in a declaration whose own block is  *)
(* well labelled.                                                          *)
C11_Witness ==
    /\ pc = "rejected"
    /\ \E i \in 1..Len(tree) :
           /\ tree[i][1] = "decl"
           /\ ~LabelsDiffer(tree[i][4])
           /\ ~C11_LabelsEqual(tree[i])

(***************************************************************************)
(* Name resolution.                                                        *)
(***************************************************************************)
C12_Declared == {i \in 1..Len(prog) : prog[i][1] = "decl"}

C12_LastDecl(name) ==
    LET i == CHOOSE j \in C12_Declared :
                 /\ prog[j][2] = name
                 /\ \A k \in C12_Declared : prog[k][2] = name => k <= j
    IN  <<prog[i][3], prog[i][4]>>

(* While a procedure body runs, the registry holds every declared name,    *)
(* each with the parameters and the body of its last declaration.          *)
C12_RegistryAtCall ==
    Depth > 0 =>
        /\ DOMAIN decls = {prog[i][2] : i \in C12_Declared}
        /\ \A name \in DOMAIN decls : decls[name] = C12_LastDecl(name)

(* A declaration replaces what the registry held and returns normally; a   *)
(* call enters the body, and binds the parameters, the registry holds now. *)
C12_Resolves ==
    /\ Evaluating({"decl"}) =>
           /\ pc' = "ret" /\ exc' = NoExc
           /\ decls' = DictSet(decls, tup[2], <<tup[3], tup[4]>>)
    /\ (Returning("call", "args") /\ pc' = "eval" /\ Depth' > Depth) =>
           /\ tup' = decls[Top.procname][2]
           /\ params' = ZipDict(decls[Top.procname][1], Append(Top.funcargs, val))

C12_Results ==
    pc \in {"done", "crashed"} =>
        \A a \in 0..2, b \in 0..2, x \in 0..2 :
            prog = RedeclProgram(a, b, x) =>
                pc = "done" /\ exc = NoExc /\ val = IntV(x * b)

(* C12: a call uses the registry as it is when the call executes: of a     *)
(* name declared more than once the parameter list and the body of the     *)
(* last declaration are used and no error is raised, and a body may call a *)
(* procedure declared after it.                                            *)
C12_CallUsesLastDeclaration ==
    /\ [](C12_RegistryAtCall /\ C12_Results)
    /\ [][C12_Resolves]_vars

C12_Witness ==
    /\ pc = "done" /\ prog = RedeclProgram(1, 2, 2) /\ val = IntV(4)

(***************************************************************************)
(* The bounded loop.                                                       *)
(***************************************************************************)
C13_FromBottom(c, j) == c[Len(c) - j + 1]

(* The bound has been evaluated: N = 0 ends the loop with no cell changed, *)
(* any other N starts iteration 0 of N.                                    *)
C13_BoundOnce ==
    Returning("loop", "bound") =>
        /\ stores' = stores
        /\ IF val.n = 0
           THEN pc' = "ret" /\ val' = NoneV /\ ctl' = Rest
           ELSE /\ pc' = "eval" /\ tup' = Top.body
                /\ ctl' = <<[Top EXCEPT !.stage = "for", !.n = val.n, !.i = 0]>> \o Rest

(* The body has returned: iteration i + 1 starts on the cells it left      *)
(* while i + 1 < N, and the loop ends after iteration N - 1.               *)
C13_Iterates ==
    Returning("loop", "for") =>
        /\ stores' = stores
        /\ IF Top.i + 1 < Top.n
           THEN /\ pc' = "eval" /\ tup' = Top.body
                /\ ctl' = <<[Top EXCEPT !.i = @ + 1]>> \o Rest
           ELSE pc' = "ret" /\ val' = NoneV /\ ctl' = Rest

(* No step changes the N of a running loop, returns it to the evaluation   *)
(* of its bound or moves its count other than by one iteration.            *)
C13_CountFixed ==
    \A j \in 1..Min(Len(ctl), Len(ctl')) :
        LET f == C13_FromBottom(ctl, j)
            g == C13_FromBottom(ctl', j)
        IN  (f.k = "loop" /\ f.stage = "for" /\ g.k = "loop") =>
                /\ g.stage = "for" /\ g.n = f.n /\ g.body = f.body
                /\ g.i \in {f.i, f.i + 1}
                /\ g.i < g.n

C13_Results ==
    pc \in {"done", "crashed"} =>
        \A x \in 0..3, e \in BoundBodies :
            prog = BoundProgram(x, e) =>
                pc = "done" /\ exc = NoExc /\ val = IntV(x)

(* C13: a bounded loop evaluates its bound once, before the first          *)
(* iteration, to N and, unless an exception leaves the body, runs the body *)
(* exactly N times, each run on the cells the previous one left; what the  *)
(* body assigns to a cell the bound reads does not change the count, and   *)
(* for N = 0 the body is not run and no cell changes.                      *)
C13_BoundedLoopRunsBoundTimes ==
    /\ []C13_Results
    /\ [][C13_BoundOnce /\ C13_Iterates /\ C13_CountFixed]_vars

(* Three iterations of a loop whose body zeroes the cell its bound read.   *)
C13_Witness ==
    /\ pc = "done" /\ prog = BoundProgram(3, num(0)) /\ val = IntV(3)

(***************************************************************************)
(* Abort under nested loops and blocks.                                    *)
(***************************************************************************)
C14_OtherAbort ==
    /\ pc = "raise" /\ ctl # <<>> /\ exc.type = "Abort"
    /\ \/ Top.k \in {"run", "block", "cond"}
       \/ Top.k = "loop" /\ Top.stage \in {"while", "for"} /\ exc # Abort(Top.body[2])

(* With the abort caught by the inner loop every outer run counts one      *)
(* inner run and one run of the statement after the inner loop; caught by  *)
(* the outer loop, labelled 1, the first outer run is the last and OUTPUT  *)
(* is never assigned; caught by neither, it leaves the procedure.          *)
C14_Results ==
    Ended =>
        \A outer \in NestHeads, inner \in NestHeads, li \in {1, 2}, bl \in {1, 2},
           a \in {1, 2}, x \in 1..2 :
            prog = NestProgram(outer, inner, li, bl, abort(a), x) =>
                IF a = li THEN pc = "done" /\ val = IntV(2 * x)
                ELSE IF a = 1 THEN pc = "done" /\ val = IntV(0)
                ELSE pc = "crashed"

C15_OtherBreak ==
    /\ pc = "raise" /\ ctl # <<>> /\ exc.type = "Break"
    /\ \/ Top.k \in {"run", "cond", "loop"}
       \/ Top.k = "block" /\ exc # Break(Top.blocknum)

C15_Intercepts ==
    (pc = "raise" /\ ctl # <<>> /\ exc.type = "Break"
        /\ Top.k = "block" /\ Top.blocknum = exc.blocknum) => ReturnsNormally

(* Caught by the inner body, labelled li, the quit leaves the inner loop   *)
(* running: two inner runs and one run of the statement after the loop for *)
(* every outer run, and no end for an inner mu-loop.  Caught by the block  *)
(* labelled bl around the inner loop, every outer run counts one inner run *)
(* and the statement after the inner loop is skipped.  Caught by the outer *)
(* body, labelled 1, or by the procedure body, labelled 0, OUTPUT is never *)
(* assigned.  Caught by none, it leaves the procedure.                     *)
C15_Results ==
    Ended =>
        \A outer \in NestHeads, inner \in NestHeads, li \in {1, 2}, bl \in {1, 2},
           q \in 0..2, x \in 1..2 :
            prog = NestProgram(outer, inner, li, bl, quit(q), x) =>
                IF q = li THEN inner # None /\ pc = "done" /\ val = IntV(3 * x)
                ELSE IF q = bl THEN pc = "done" /\ val = IntV(x)
                ELSE IF q \in {0, 1} THEN pc = "done" /\ val = IntV(0)
                ELSE pc = "crashed"

(* C15: Quit(n) raised under loops and blocks nested in the block labelled *)
(* n unwinds them all: the loops, bounded or mu, start no further          *)
(* iteration, the blocks with another label do not catch it, the rest of   *)
(* block n is skipped and block n completes normally; of nested blocks     *)
(* labelled n the innermost catches it.                                    *)
C15_QuitUnwindsToBlock ==
    /\ []C15_Results
    /\ [][(C15_OtherBreak => PassesOn) /\ C15_Intercepts]_vars

(* Quit(1) in the body, labelled 2, of an inner mu-loop, caught by the     *)
(* block labelled 1 around that loop and not by the outer body labelled 1. *)
C15_Witness ==
    /\ pc = "done"
    /\ prog = NestProgram(None, None, 2, 1, quit(1), 2)
    /\ val = IntV(2)

(***************************************************************************)
(* The values of the run.                                                  *)
(***************************************************************************)
C16_IsValue(v) ==
    \/ v.t = "bool" /\ v.n \in {0, 1}
    \/ v.t = "int" /\ v.n \in Nat

C16_Dict(d) == \A k \in DOMAIN d : C16_IsValue(d[k])

C16_Stored == \A s \in 1..Len(stores) : C16_Dict(stores[s])

C16_Bound ==
    /\ C16_Dict(params)
    /\ \A i \in CallFrames :
           /\ C16_Dict(ctl[i].params)
           /\ \A j \in 1..Len(ctl[i].funcargs) : C16_IsValue(ctl[i].funcargs[j])

(* A Cell is the value of the target of an assignment and nothing else.    *)
C16_CellIsTarget ==
    /\ val.t = "cell" => Returning("assign", "left")
    /\ \A i \in 1..Len(ctl) :
           (ctl[i].k = "assign" /\ ctl[i].stage = "value") => ctl[i].left.t = "cell"

C16_Returned ==
    (Returning("call", "body") /\ pc' = "ret") => C16_IsValue(val')

(* C16: every value in a cell of the store of any activation, bound to a   *)
(* parameter or returned by a call is a Boolean or an integer >= 0; a Cell *)
(* is produced only as the target of an assignment and is never stored,    *)
(* bound or returned.                                                      *)
C16_ValuesAreBoolOrNat ==
    /\ [](C16_Stored /\ C16_Bound /\ C16_CellIsTarget)
    /\ [][C16_Returned]_vars

(* f, holding an integer in CELL(0) and in X, gets YES back from z?.       *)
C16_Witness ==
    /\ Returning("assign", "value") /\ Depth = 1
    /\ prog = CallerProgram(ISZERO, <<cellfetch(0)>>, 0)
    /\ val = BoolV(TRUE)
    /\ stores[cells][0] = IntV(0) /\ params["X"] = IntV(0)

====
